---- MODULE Spec2Model ----
(***************************************************************************)
(* Reconciliation state machine of the Fleet Management Pipeline operator. *)
(* One Pipeline resource in the resource store, the remote Fleet           *)
(* Management service, and one serialized Reconcile worker whose           *)
(* invocation is split at its I/O points (Get, UpsertPipeline,             *)
(* DeletePipeline, Update, Status().Update), so that user writes, remote   *)
(* changes and process restarts interleave with it.  RequestSpec applies   *)
(* buildUpsertRequest and the ConfigType conversions to Pipeline objects   *)
(* on their own.                                                           *)
(***************************************************************************)
EXTENDS Integers, Sequences, FiniteSets, TLC

\* ---------------------------------------------------------------- bounds
\* metadata.generation is capped: the user edits the spec at most
\* MaxGeneration - 1 times.
MaxGeneration == 2
\* UpsertPipeline calls one invocation may issue (the remote stops answering
\* not-found once the cap is reached).
MaxUpsertCalls == 3

\* ------------------------------------------------------------- constants
pipelineFinalizer == "pipeline.fleetmanagement.grafana.com/finalizer"
conditionTypeReady == "Ready"
conditionTypeSynced == "Synced"
reasonSynced == "Synced"
reasonSyncFailed == "SyncFailed"
reasonValidationError == "ValidationError"
reasonDeleteFailed == "DeleteFailed"

ConditionTrue == "True"
ConditionFalse == "False"

StatusOK == 200
StatusBadRequest == 400
StatusNotFound == 404
StatusTooManyRequests == 429
StatusInternalServerError == 500
\* RequeueAfter of the rate-limit branch, in seconds
RateLimitRequeueSeconds == 10

ConfigTypeAlloy == "Alloy"
ConfigTypeOpenTelemetryCollector == "OpenTelemetryCollector"
fleetAPIConfigTypeAlloy == "CONFIG_TYPE_ALLOY"
fleetAPIConfigTypeOTEL == "CONFIG_TYPE_OTEL"
SourceTypeGit == "Git"
SourceTypeTerraform == "Terraform"
SourceTypeKubernetes == "Kubernetes"
SourceTypeUnspecified == "Unspecified"
fleetAPISourceTypeGit == "SOURCE_TYPE_GIT"
fleetAPISourceTypeTerraform == "SOURCE_TYPE_TERRAFORM"
fleetAPISourceTypeKubernetes == "SOURCE_TYPE_KUBERNETES"
fleetAPISourceTypeUnspecified == "SOURCE_TYPE_UNSPECIFIED"

\* --------------------------------------------------------- API types
ConfigTypeToFleetAPI(c) ==
    CASE c = ConfigTypeAlloy -> fleetAPIConfigTypeAlloy
      [] c = ConfigTypeOpenTelemetryCollector -> fleetAPIConfigTypeOTEL
      [] OTHER -> fleetAPIConfigTypeAlloy

SourceTypeToFleetAPI(s) ==
    CASE s = SourceTypeGit -> fleetAPISourceTypeGit
      [] s = SourceTypeTerraform -> fleetAPISourceTypeTerraform
      [] s = SourceTypeKubernetes -> fleetAPISourceTypeKubernetes
      [] s = SourceTypeUnspecified -> fleetAPISourceTypeUnspecified
      [] OTHER -> fleetAPISourceTypeKubernetes

\* Mutant of ConfigTypeFromFleetAPI: the OTEL case is missing.
ConfigTypeFromFleetAPIWithoutOTEL(apiType) ==
    CASE apiType = fleetAPIConfigTypeAlloy -> ConfigTypeAlloy
      [] OTHER -> ConfigTypeAlloy

ConfigTypeFromFleetAPI(apiType) ==
    CASE apiType = fleetAPIConfigTypeOTEL -> ConfigTypeOpenTelemetryCollector
      [] apiType = fleetAPIConfigTypeAlloy -> ConfigTypeAlloy
      [] OTHER -> ConfigTypeAlloy

\* spec.source unset (a nil *PipelineSource)
NilSource == [isNil |-> TRUE, Type |-> "", Namespace |-> ""]

\* A PipelineSpec with the given spec.name; the other fields as in the
\* controller tests.
PipelineSpec(name) ==
    [Name |-> name,
     Contents |-> "prometheus.exporter.self \"alloy\" { }",
     Matchers |-> <<"env=prod">>,
     Enabled |-> TRUE,
     ConfigType |-> ConfigTypeAlloy,
     Source |-> NilSource]

\* The specs the user writes: spec.name unset or set.
SpecSet == {PipelineSpec(""), PipelineSpec("custom-pipeline-name")}

\* PipelineStatus of a resource that was never reconciled
EmptyStatus == [ID |-> "", ObservedGeneration |-> 0, Conditions |-> <<>>]

\* The Pipeline object as created by the user
NewPipeline(spec) ==
    [Name |-> "test-pipeline",
     Namespace |-> "default",
     Generation |-> 1,
     DeletionTimestamp |-> FALSE,
     Finalizers |-> {},
     Spec |-> spec,
     Status |-> EmptyStatus]

\* --------------------------------------------------------- fleetclient
\* FleetAPIError{StatusCode, Operation, Message}; isAPI = FALSE is an error
\* that is no *FleetAPIError (transport, rate limiter, marshalling).
FleetAPIError(code, op, msg) ==
    [isAPI |-> TRUE, StatusCode |-> code, Operation |-> op, Message |-> msg]

TransportError ==
    [isAPI |-> FALSE, StatusCode |-> 0, Operation |-> "",
     Message |-> "failed to execute request"]

\* The error of a call whose context is cancelled: limiter.Wait or
\* httpClient.Do fails and the client wraps the failure with fmt.Errorf.
ContextCanceled ==
    [isAPI |-> FALSE, StatusCode |-> 0, Operation |-> "",
     Message |-> "failed to execute request: context canceled"]

\* The finalizer the API server sets on an object deleted with
\* propagationPolicy=Foreground; the garbage collector removes it.
foregroundDeletion == "foregroundDeletion"

\* err.Error()
ErrorString(err) == err.Message

\* The errors UpsertPipeline can return: a FleetAPIError for every response
\* that is not 200, or a transport error.
UpsertErrors ==
    {FleetAPIError(StatusBadRequest, "UpsertPipeline",
                   "validation error: invalid configuration"),
     FleetAPIError(StatusNotFound, "UpsertPipeline", "pipeline not found"),
     FleetAPIError(StatusTooManyRequests, "UpsertPipeline", "rate limit exceeded"),
     FleetAPIError(StatusInternalServerError, "UpsertPipeline",
                   "internal server error"),
     TransportError}

\* The errors DeletePipeline can return besides not-found.
DeleteErrors ==
    {FleetAPIError(StatusInternalServerError, "DeletePipeline",
                   "internal server error"),
     TransportError}

DeleteNotFound == FleetAPIError(StatusNotFound, "DeletePipeline", "pipeline not found")

\* A nil error.
NilError == [isNil |-> TRUE]

\* Mutant of ClientDeletePipeline: a 404 response is an error like any other.
ClientDeletePipelineWithoutNotFound(statusCode, body) ==
    IF statusCode # StatusOK
    THEN FleetAPIError(statusCode, "DeletePipeline", body)
    ELSE NilError

\* Client.DeletePipeline from the HTTP response on: what it returns for a
\* response with this status code and body.
ClientDeletePipeline(statusCode, body) ==
    IF statusCode = StatusNotFound THEN NilError
    ELSE IF statusCode # StatusOK
         THEN FleetAPIError(statusCode, "DeletePipeline", body)
         ELSE NilError

\* The status codes of the responses handed to the client.
HTTPStatusCodes ==
    {StatusOK, 201, 204, 301, StatusBadRequest, 401, 403, StatusNotFound,
     StatusTooManyRequests, StatusInternalServerError, 503}

\* The bodies of those responses.
HTTPBodies == {"", "pipeline not found", "internal server error"}

\* The identifier the remote service assigns to the pipeline of a name (the
\* name is the remote service's unique key).
RemoteID(name) == "id-" \o name

\* --------------------------------------------------------- controller
IsZero(deletionTimestamp) == ~deletionTimestamp

ContainsFinalizer(p, f) == f \in p.Finalizers

\* Mutant of AddFinalizer: the object is also given its own name as spec.name.
AddFinalizerDefaultingSpecName(p, f) ==
    [p EXCEPT !.Finalizers = @ \cup {f}, !.Spec.Name = p.Name]

AddFinalizer(p, f) == [p EXCEPT !.Finalizers = @ \cup {f}]

RemoveFinalizer(p, f) == [p EXCEPT !.Finalizers = @ \ {f}]

\* A metav1.Condition as the controller builds it: lastTransitionTime is left
\* zero for meta.SetStatusCondition to fill in.
Condition(type, status, reason, message, gen) ==
    [Type |-> type, Status |-> status, Reason |-> reason, Message |-> message,
     ObservedGeneration |-> gen, LastTransitionTime |-> 0]

\* Mutant of SetStatusCondition: the entry is replaced wholesale, with a new
\* lastTransitionTime on every call.
SetStatusConditionAlwaysStamping(conds, c, now) ==
    IF \E i \in 1..Len(conds) : conds[i].Type = c.Type
    THEN [i \in 1..Len(conds) |->
            IF conds[i].Type = c.Type
            THEN [c EXCEPT !.LastTransitionTime = now]
            ELSE conds[i]]
    ELSE Append(conds, [c EXCEPT !.LastTransitionTime = now])

\* meta.SetStatusCondition at clock reading `now`: an entry of a new type is
\* appended with lastTransitionTime = now (when the caller left it zero); an
\* existing entry of the type takes the new reason, message and
\* observedGeneration, and takes the new status and lastTransitionTime only
\* when the status differs.
SetStatusCondition(conds, c, now) ==
    IF \E i \in 1..Len(conds) : conds[i].Type = c.Type
    THEN [i \in 1..Len(conds) |->
            IF conds[i].Type = c.Type
            THEN [c EXCEPT !.LastTransitionTime =
                     IF conds[i].Status # c.Status
                     THEN (IF c.LastTransitionTime # 0
                           THEN c.LastTransitionTime ELSE now)
                     ELSE conds[i].LastTransitionTime]
            ELSE conds[i]]
    ELSE Append(conds, [c EXCEPT !.LastTransitionTime =
                           IF @ = 0 THEN now ELSE @])

\* Mutant of buildUpsertRequest: the matchers are left out of the request.
buildUpsertRequestWithoutMatchers(p) ==
    LET pipelineName == IF p.Spec.Name = "" THEN p.Name ELSE p.Spec.Name
        source == IF ~p.Spec.Source.isNil
                  THEN [isNil |-> FALSE,
                        Type |-> SourceTypeToFleetAPI(p.Spec.Source.Type),
                        Namespace |-> p.Spec.Source.Namespace]
                  ELSE [isNil |-> FALSE,
                        Type |-> SourceTypeToFleetAPI(SourceTypeKubernetes),
                        Namespace |-> p.Namespace \o "/" \o p.Name]
    IN [isNil |-> FALSE,
        Pipeline |-> [Name |-> pipelineName,
                      Contents |-> p.Spec.Contents,
                      Matchers |-> <<>>,
                      Enabled |-> p.Spec.Enabled,
                      ID |-> "",
                      ConfigType |-> ConfigTypeToFleetAPI(p.Spec.ConfigType),
                      Source |-> source],
        ValidateOnly |-> FALSE]

\* Mutant of buildUpsertRequest: spec.name is ignored.
buildUpsertRequestIgnoringSpecName(p) ==
    LET pipelineName == IF p.Spec.Name = "" THEN p.Name ELSE p.Spec.Name
        source == IF ~p.Spec.Source.isNil
                  THEN [isNil |-> FALSE,
                        Type |-> SourceTypeToFleetAPI(p.Spec.Source.Type),
                        Namespace |-> p.Spec.Source.Namespace]
                  ELSE [isNil |-> FALSE,
                        Type |-> SourceTypeToFleetAPI(SourceTypeKubernetes),
                        Namespace |-> p.Namespace \o "/" \o p.Name]
    IN [isNil |-> FALSE,
        Pipeline |-> [Name |-> p.Name,
                      Contents |-> p.Spec.Contents,
                      Matchers |-> p.Spec.Matchers,
                      Enabled |-> p.Spec.Enabled,
                      ID |-> "",
                      ConfigType |-> ConfigTypeToFleetAPI(p.Spec.ConfigType),
                      Source |-> source],
        ValidateOnly |-> FALSE]

\* Mutant of buildUpsertRequest: the known identifier is sent along.
buildUpsertRequestCarryingID(p) ==
    LET pipelineName == IF p.Spec.Name = "" THEN p.Name ELSE p.Spec.Name
        source == IF ~p.Spec.Source.isNil
                  THEN [isNil |-> FALSE,
                        Type |-> SourceTypeToFleetAPI(p.Spec.Source.Type),
                        Namespace |-> p.Spec.Source.Namespace]
                  ELSE [isNil |-> FALSE,
                        Type |-> SourceTypeToFleetAPI(SourceTypeKubernetes),
                        Namespace |-> p.Namespace \o "/" \o p.Name]
    IN [isNil |-> FALSE,
        Pipeline |-> [Name |-> pipelineName,
                      Contents |-> p.Spec.Contents,
                      Matchers |-> p.Spec.Matchers,
                      Enabled |-> p.Spec.Enabled,
                      ID |-> p.Status.ID,
                      ConfigType |-> ConfigTypeToFleetAPI(p.Spec.ConfigType),
                      Source |-> source],
        ValidateOnly |-> FALSE]

\* Mutant of buildUpsertRequest: the default source names the namespace only.
buildUpsertRequestSourceNamespaceOnly(p) ==
    LET pipelineName == IF p.Spec.Name = "" THEN p.Name ELSE p.Spec.Name
        source == IF ~p.Spec.Source.isNil
                  THEN [isNil |-> FALSE,
                        Type |-> SourceTypeToFleetAPI(p.Spec.Source.Type),
                        Namespace |-> p.Spec.Source.Namespace]
                  ELSE [isNil |-> FALSE,
                        Type |-> SourceTypeToFleetAPI(SourceTypeKubernetes),
                        Namespace |-> p.Namespace]
    IN [isNil |-> FALSE,
        Pipeline |-> [Name |-> pipelineName,
                      Contents |-> p.Spec.Contents,
                      Matchers |-> p.Spec.Matchers,
                      Enabled |-> p.Spec.Enabled,
                      ID |-> "",
                      ConfigType |-> ConfigTypeToFleetAPI(p.Spec.ConfigType),
                      Source |-> source],
        ValidateOnly |-> FALSE]

\* buildUpsertRequest: the UpsertPipelineRequest of a Pipeline object.
buildUpsertRequest(p) ==
    LET pipelineName == IF p.Spec.Name = "" THEN p.Name ELSE p.Spec.Name
        source == IF ~p.Spec.Source.isNil
                  THEN [isNil |-> FALSE,
                        Type |-> SourceTypeToFleetAPI(p.Spec.Source.Type),
                        Namespace |-> p.Spec.Source.Namespace]
                  ELSE [isNil |-> FALSE,
                        Type |-> SourceTypeToFleetAPI(SourceTypeKubernetes),
                        Namespace |-> p.Namespace \o "/" \o p.Name]
    IN [isNil |-> FALSE,
        Pipeline |-> [Name |-> pipelineName,
                      Contents |-> p.Spec.Contents,
                      Matchers |-> p.Spec.Matchers,
                      Enabled |-> p.Spec.Enabled,
                      ID |-> "",
                      ConfigType |-> ConfigTypeToFleetAPI(p.Spec.ConfigType),
                      Source |-> source],
        ValidateOnly |-> FALSE]

\* Mutant of AlreadyReconciled: the gate compares with "ahead of".
AlreadyReconciledWhenAhead(p) == p.Status.ObservedGeneration > p.Generation

\* Mutant of AlreadyReconciled: the gate is missing, every invocation syncs.
NeverAlreadyReconciled(p) == FALSE

\* Reconcile step 4: the observedGeneration gate.
AlreadyReconciled(p) == p.Status.ObservedGeneration = p.Generation

\* reconcileDelete: the remote delete is attempted only with a known ID.
HasRemoteID(p) == p.Status.ID # ""

\* Mutant of ClearID: the identifier is kept.
ClearIDKeepingIt(p) == p

\* handleAPIError on a not-found Upsert: pipeline.Status.ID = "" in memory.
ClearID(p) == [p EXCEPT !.Status.ID = ""]

\* Mutant of Dispatch: the finalizer step is missing, a resource without the
\* finalizer is synced at once.
DispatchWithoutFinalizerStep(p) ==
    IF ~IsZero(p.DeletionTimestamp)
    THEN IF ~ContainsFinalizer(p, pipelineFinalizer) THEN "idle"
         ELSE IF HasRemoteID(p) THEN "DeletePipeline"
         ELSE "RemoveFinalizer"
    ELSE IF AlreadyReconciled(p) THEN "idle"
    ELSE "UpsertPipeline"

\* Mutant of Dispatch: the finalizer is attached before the deletion marker
\* is looked at.
DispatchFinalizerBeforeDeletion(p) ==
    IF ~ContainsFinalizer(p, pipelineFinalizer) THEN "AddFinalizer"
    ELSE IF ~IsZero(p.DeletionTimestamp)
    THEN IF HasRemoteID(p) THEN "DeletePipeline"
         ELSE "RemoveFinalizer"
    ELSE IF AlreadyReconciled(p) THEN "idle"
    ELSE "UpsertPipeline"

\* Mutant of Dispatch: a resource marked for deletion is left alone.
DispatchIgnoringDeletion(p) ==
    IF ~IsZero(p.DeletionTimestamp) THEN "idle"
    ELSE IF ~ContainsFinalizer(p, pipelineFinalizer) THEN "AddFinalizer"
    ELSE IF AlreadyReconciled(p) THEN "idle"
    ELSE "UpsertPipeline"

\* Mutant of Dispatch: an unreconciled generation is synced before the
\* deletion marker is looked at.
DispatchSyncBeforeDeletion(p) ==
    IF ContainsFinalizer(p, pipelineFinalizer) /\ ~AlreadyReconciled(p)
    THEN "UpsertPipeline"
    ELSE IF ~IsZero(p.DeletionTimestamp)
    THEN IF ~ContainsFinalizer(p, pipelineFinalizer) THEN "idle"
         ELSE IF HasRemoteID(p) THEN "DeletePipeline"
         ELSE "RemoveFinalizer"
    ELSE IF ~ContainsFinalizer(p, pipelineFinalizer) THEN "AddFinalizer"
    ELSE "idle"

\* Reconcile / reconcileDelete up to the first remote call or store write:
\* the step the invocation takes next for the fetched object ("idle": it
\* returns ctrl.Result{}, nil without any call or write).
Dispatch(p) ==
    IF ~IsZero(p.DeletionTimestamp)
    THEN IF ~ContainsFinalizer(p, pipelineFinalizer) THEN "idle"
         ELSE IF HasRemoteID(p) THEN "DeletePipeline"
         ELSE "RemoveFinalizer"
    ELSE IF ~ContainsFinalizer(p, pipelineFinalizer) THEN "AddFinalizer"
    ELSE IF AlreadyReconciled(p) THEN "idle"
    ELSE "UpsertPipeline"

\* Mutant of handleAPIError: an error that is no FleetAPIError is retried after
\* the fixed delay, with no status recorded and no error returned.
handleAPIErrorRequeuingNonAPIError(err) ==
    IF err.isAPI
    THEN CASE err.StatusCode = StatusBadRequest ->
                [do |-> "updateStatusError", reason |-> reasonValidationError]
           [] err.StatusCode = StatusNotFound ->
                [do |-> "reconcileNormal", reason |-> ""]
           [] err.StatusCode = StatusTooManyRequests ->
                [do |-> "requeueAfter", reason |-> ""]
           [] OTHER ->
                [do |-> "updateStatusError", reason |-> reasonSyncFailed]
    ELSE [do |-> "requeueAfter", reason |-> ""]

\* Mutant of handleAPIError: a rate limit is recorded like a bad request.
handleAPIErrorRateLimitAsValidation(err) ==
    IF err.isAPI
    THEN CASE err.StatusCode \in {StatusBadRequest, StatusTooManyRequests} ->
                [do |-> "updateStatusError", reason |-> reasonValidationError]
           [] err.StatusCode = StatusNotFound ->
                [do |-> "reconcileNormal", reason |-> ""]
           [] OTHER ->
                [do |-> "updateStatusError", reason |-> reasonSyncFailed]
    ELSE [do |-> "updateStatusError", reason |-> reasonSyncFailed]

\* Mutant of handleAPIError: every structured error other than not-found and
\* rate limit is recorded as a validation error.
handleAPIErrorServerErrorAsValidation(err) ==
    IF err.isAPI
    THEN CASE err.StatusCode = StatusNotFound ->
                [do |-> "reconcileNormal", reason |-> ""]
           [] err.StatusCode = StatusTooManyRequests ->
                [do |-> "requeueAfter", reason |-> ""]
           [] OTHER ->
                [do |-> "updateStatusError", reason |-> reasonValidationError]
    ELSE [do |-> "updateStatusError", reason |-> reasonSyncFailed]

\* Mutant of handleAPIError: the 429 case is missing, a rate limit falls into
\* the default branch and is recorded as a sync failure.
handleAPIErrorWithoutRateLimitCase(err) ==
    IF err.isAPI
    THEN CASE err.StatusCode = StatusBadRequest ->
                [do |-> "updateStatusError", reason |-> reasonValidationError]
           [] err.StatusCode = StatusNotFound ->
                [do |-> "reconcileNormal", reason |-> ""]
           [] OTHER ->
                [do |-> "updateStatusError", reason |-> reasonSyncFailed]
    ELSE [do |-> "updateStatusError", reason |-> reasonSyncFailed]

\* Mutant of handleAPIError: a rate limit is retried at once, in the same
\* invocation, like a not-found.
handleAPIErrorRetryingRateLimit(err) ==
    IF err.isAPI
    THEN CASE err.StatusCode = StatusBadRequest ->
                [do |-> "updateStatusError", reason |-> reasonValidationError]
           [] err.StatusCode \in {StatusNotFound, StatusTooManyRequests} ->
                [do |-> "reconcileNormal", reason |-> ""]
           [] OTHER ->
                [do |-> "updateStatusError", reason |-> reasonSyncFailed]
    ELSE [do |-> "updateStatusError", reason |-> reasonSyncFailed]

\* handleAPIError: what the invocation does with an UpsertPipeline error.
handleAPIError(err) ==
    IF err.isAPI
    THEN CASE err.StatusCode = StatusBadRequest ->
                [do |-> "updateStatusError", reason |-> reasonValidationError]
           [] err.StatusCode = StatusNotFound ->
                [do |-> "reconcileNormal", reason |-> ""]
           [] err.StatusCode = StatusTooManyRequests ->
                [do |-> "requeueAfter", reason |-> ""]
           [] OTHER ->
                [do |-> "updateStatusError", reason |-> reasonSyncFailed]
    ELSE [do |-> "updateStatusError", reason |-> reasonSyncFailed]

\* Mutant of IsDeleteNotFound: a not-found answer is a failure like any other.
IsDeleteNotFoundNever(err) == FALSE

\* Mutant of IsDeleteNotFound: every DeletePipeline error is swallowed.
IsDeleteNotFoundAnyError(err) == TRUE

\* Mutant of IsDeleteNotFound: the status code is not looked at, every
\* FleetAPIError of DeletePipeline counts as "already deleted".
IsDeleteNotFoundAnyAPIError(err) == err.isAPI

\* reconcileDelete: a DeletePipeline error that counts as "already deleted".
IsDeleteNotFound(err) == err.isAPI /\ err.StatusCode = StatusNotFound

\* Mutant of StatusSuccess: observedGeneration is not updated.
StatusSuccessKeepingObservedGeneration(p, api, now) ==
    [p EXCEPT !.Status =
        [ID |-> api.ID,
         ObservedGeneration |-> p.Status.ObservedGeneration,
         Conditions |->
            SetStatusCondition(
                SetStatusCondition(p.Status.Conditions,
                    Condition(conditionTypeReady, ConditionTrue, reasonSynced,
                              "Pipeline successfully synced to Fleet Management",
                              p.Generation),
                    now),
                Condition(conditionTypeSynced, ConditionTrue, reasonSynced,
                          "UpsertPipeline succeeded, ID: " \o api.ID,
                          p.Generation),
                now)]]

\* Mutant of StatusSuccess: the Synced condition gets a reason of its own.
StatusSuccessSyncedReasonOfItsOwn(p, api, now) ==
    [p EXCEPT !.Status =
        [ID |-> api.ID,
         ObservedGeneration |-> p.Generation,
         Conditions |->
            SetStatusCondition(
                SetStatusCondition(p.Status.Conditions,
                    Condition(conditionTypeReady, ConditionTrue, reasonSynced,
                              "Pipeline successfully synced to Fleet Management",
                              p.Generation),
                    now),
                Condition(conditionTypeSynced, ConditionTrue, "UpsertSucceeded",
                          "UpsertPipeline succeeded, ID: " \o api.ID,
                          p.Generation),
                now)]]

\* updateStatusSuccess: the in-memory status before Status().Update.
StatusSuccess(p, api, now) ==
    [p EXCEPT !.Status =
        [ID |-> api.ID,
         ObservedGeneration |-> p.Generation,
         Conditions |->
            SetStatusCondition(
                SetStatusCondition(p.Status.Conditions,
                    Condition(conditionTypeReady, ConditionTrue, reasonSynced,
                              "Pipeline successfully synced to Fleet Management",
                              p.Generation),
                    now),
                Condition(conditionTypeSynced, ConditionTrue, reasonSynced,
                          "UpsertPipeline succeeded, ID: " \o api.ID,
                          p.Generation),
                now)]]

\* Mutant of StatusError: the status is rebuilt from an empty one, which
\* leaves observedGeneration at zero.
StatusErrorResettingObservedGeneration(p, reason, msg, now) ==
    [p EXCEPT !.Status =
        [ID |-> p.Status.ID,
         ObservedGeneration |-> 0,
         Conditions |->
            SetStatusCondition(
                SetStatusCondition(p.Status.Conditions,
                    Condition(conditionTypeReady, ConditionFalse, reason, msg,
                              p.Generation),
                    now),
                Condition(conditionTypeSynced, ConditionFalse, reason, msg,
                          p.Generation),
                now)]]

\* Mutant of StatusError: observedGeneration is set one past the generation.
StatusErrorAheadOfGeneration(p, reason, msg, now) ==
    [p EXCEPT !.Status =
        [ID |-> p.Status.ID,
         ObservedGeneration |-> p.Generation + 1,
         Conditions |->
            SetStatusCondition(
                SetStatusCondition(p.Status.Conditions,
                    Condition(conditionTypeReady, ConditionFalse, reason, msg,
                              p.Generation),
                    now),
                Condition(conditionTypeSynced, ConditionFalse, reason, msg,
                          p.Generation),
                now)]]

\* Mutant of StatusError: observedGeneration is left as it was.
StatusErrorKeepingObservedGeneration(p, reason, msg, now) ==
    [p EXCEPT !.Status =
        [ID |-> p.Status.ID,
         ObservedGeneration |-> p.Status.ObservedGeneration,
         Conditions |->
            SetStatusCondition(
                SetStatusCondition(p.Status.Conditions,
                    Condition(conditionTypeReady, ConditionFalse, reason, msg,
                              p.Generation),
                    now),
                Condition(conditionTypeSynced, ConditionFalse, reason, msg,
                          p.Generation),
                now)]]

\* updateStatusError: the in-memory status before Status().Update.
StatusError(p, reason, msg, now) ==
    [p EXCEPT !.Status =
        [ID |-> p.Status.ID,
         ObservedGeneration |-> p.Generation,
         Conditions |->
            SetStatusCondition(
                SetStatusCondition(p.Status.Conditions,
                    Condition(conditionTypeReady, ConditionFalse, reason, msg,
                              p.Generation),
                    now),
                Condition(conditionTypeSynced, ConditionFalse, reason, msg,
                          p.Generation),
                now)]]

\* (ctrl.Result, error) as returned by Reconcile; err = "" is a nil error.
Result(requeue, after, err) ==
    [returned |-> TRUE, Requeue |-> requeue, RequeueAfter |-> after, err |-> err]

NoRequeue == Result(FALSE, 0, "")
RequeueNow == Result(TRUE, 0, "")
RequeueAfterDelay == Result(FALSE, RateLimitRequeueSeconds, "")
ReturnError(msg) == Result(FALSE, 0, msg)
\* Reconcile when r.Get fails with an error other than not-found
GetFailed == ReturnError("failed to get Pipeline")
\* Mutant of NotFoundDirective: a resource that is gone is asked for again.
NotFoundDirectiveRequeue == RequeueNow

\* Reconcile when r.Get fails with not-found: ctrl.Result{}, nil
NotFoundDirective == NoRequeue
\* no invocation has returned (one is running, or the process restarted)
NotReturned == [returned |-> FALSE, Requeue |-> FALSE, RequeueAfter |-> 0, err |-> ""]

\* Mutant of ErrorDirective: the validation case is missing, every recorded
\* error is returned for backoff.
ErrorDirectiveAlwaysError(reason, msg) == ReturnError(msg)

\* updateStatusError after a committed status write
ErrorDirective(reason, msg) ==
    IF reason = reasonValidationError THEN NoRequeue ELSE ReturnError(msg)

\* Mutant of StatusUpdateFailed: a conflict is returned like any other write
\* error.
StatusUpdateFailedAlwaysError(outcome) == ReturnError("status update failed")

\* updateStatusSuccess / updateStatusError when Status().Update fails
StatusUpdateFailed(outcome) ==
    IF outcome = "conflict" THEN RequeueNow ELSE ReturnError("status update failed")

NoError == [reason |-> "", msg |-> ""]
NoAPIPipeline == [ID |-> ""]
\* no request was built (a nil *UpsertPipelineRequest)
NoRequest == [isNil |-> TRUE]

\* The Pipeline objects handed to buildUpsertRequest on its own.
ResourceNames == {"test-pipeline", "k8s-pipeline"}
ResourceNamespaces == {"default", "monitoring"}
ConfigTypes == {ConfigTypeAlloy, ConfigTypeOpenTelemetryCollector, ""}
SourceTypes == {SourceTypeGit, SourceTypeTerraform, SourceTypeKubernetes,
                SourceTypeUnspecified, ""}
SourceSet ==
    {NilSource} \cup
    {[isNil |-> FALSE, Type |-> t, Namespace |-> n] :
        t \in SourceTypes, n \in {"", "production-cluster"}}
RequestInputs ==
    {[Name |-> n,
      Namespace |-> ns,
      Generation |-> 1,
      DeletionTimestamp |-> FALSE,
      Finalizers |-> {pipelineFinalizer},
      Spec |-> [Name |-> sn,
                Contents |-> "test content",
                Matchers |-> m,
                Enabled |-> e,
                ConfigType |-> c,
                Source |-> src],
      Status |-> [EmptyStatus EXCEPT !.ID = id]] :
        n \in ResourceNames, ns \in ResourceNamespaces,
        sn \in {"", "custom-pipeline-name"},
        m \in {<<>>, <<"env=prod", "team!=dev">>},
        e \in BOOLEAN, c \in ConfigTypes, src \in SourceSet,
        id \in {"", "mock-id-123"}}

\* ------------------------------------------------------------------ state
VARIABLES
    exists,        \* the Pipeline object is in the resource store
    stored,        \* the stored Pipeline object (as last stored once removed)
    remote,        \* identifiers of the pipelines the remote service holds
    healthy,       \* calls and writes have stopped failing and being cancelled
    pc,            \* the worker's position: "idle" or the pending call/write
    pipeline,      \* the invocation's in-memory copy of the object
    fresh,         \* the copy's resourceVersion is still the stored one
    apiPipeline,   \* the pipeline UpsertPipeline returned
    pendingErr,    \* reason and message handed to updateStatusError
    calls,         \* remote calls of the current (last) invocation: the first
                   \* MaxUpsertCalls - 1 of them and the last one
    unlogged,      \* the number, modulo 2, of the Upsert calls of the running
                   \* invocation that `calls` has no room for
    writes,        \* store writes attempted by the current (last) invocation
    result,        \* what the last invocation returned
    found,         \* r.Get of the current (last) invocation found the object
    fetched,       \* the object as that r.Get returned it
    streak,        \* invocations begun since the last change by anyone else
    prevEnd,       \* how the invocation before the current one ended
    lifecycle,     \* "never": no Upsert was issued yet; "attempted": one was,
                   \* and no delete was confirmed since; "deleted": the remote
                   \* delete was confirmed (done, not found, or skipped as moot)
    request,       \* the UpsertPipelineRequest built last
    converted,     \* the ConfigType read back from the request's API string
    cancelled,     \* the context of the current (last) invocation was cancelled
                   \* while its remote call was in flight
    response       \* the HTTP response handed to Client.DeletePipeline last,
                   \* and the error the client returned for it

vars == <<exists, stored, remote, healthy, pc, pipeline, fresh, apiPipeline,
          pendingErr, calls, writes, result, found, fetched, streak,
          prevEnd, lifecycle, request, converted, cancelled, response,
          unlogged>>

storeVars == <<exists, stored>>
localVars == <<pipeline, apiPipeline, pendingErr, found, fetched>>
historyVars == <<streak, prevEnd>>
requestVars == <<request, converted, response>>

NoResponse == [isNil |-> TRUE]

Last(s) == s[Len(s)]

Call(op, arg, code) == [op |-> op, arg |-> arg, code |-> code]
Write(kind, outcome) == [kind |-> kind, outcome |-> outcome]

\* How the last invocation ended.
End ==
    IF ~result.returned THEN "aborted"
    ELSE IF result = GetFailed THEN "get failed"
    ELSE IF writes = <<>> THEN (IF calls = <<>> THEN "nothing to do" ELSE "no write")
    ELSE IF Last(writes).outcome # "ok"
         THEN (IF Last(writes).kind = "Update" /\ ~IsZero(pipeline.DeletionTimestamp)
               THEN "finalizer removal failed"
               ELSE "write failed")
    ELSE IF Last(writes).kind = "StatusUpdate"
         THEN (IF IsZero(pipeline.DeletionTimestamp) THEN "status recorded"
               ELSE "delete failure recorded")
    ELSE (IF IsZero(pipeline.DeletionTimestamp) THEN "finalizer added"
          ELSE "finalizer removed")

\* How the store answers a write carrying the fetched resourceVersion; a
\* cancelled context stays cancelled, and a write under it fails.
WriteOutcomes ==
    IF cancelled \/ ~exists THEN {"error"}
    ELSE (IF fresh THEN {"ok"} ELSE {"conflict"})
         \cup (IF healthy THEN {} ELSE {"error"})

\* The latest lastTransitionTime on record.
LatestTransition(conds) ==
    IF conds = <<>> THEN 0
    ELSE CHOOSE t \in {conds[i].LastTransitionTime : i \in 1..Len(conds)} :
            \A i \in 1..Len(conds) : conds[i].LastTransitionTime <= t

\* metav1.Now() inside meta.SetStatusCondition: a clock reading later than
\* every time on record (readings are only ever compared with recorded ones).
Now == LatestTransition(stored.Status.Conditions) + 1

Init ==
    /\ exists = TRUE
    /\ stored \in {NewPipeline(s) : s \in SpecSet}
    /\ remote = {}
    /\ healthy = FALSE
    /\ pc = "idle"
    /\ pipeline = stored
    /\ fresh = FALSE
    /\ apiPipeline = NoAPIPipeline
    /\ pendingErr = NoError
    /\ calls = <<>>
    /\ writes = <<>>
    /\ result = NotReturned
    /\ found = FALSE
    /\ fetched = stored
    /\ streak = 0
    /\ prevEnd = "aborted"
    /\ lifecycle = "never"
    /\ request = NoRequest
    /\ converted = ""
    /\ cancelled = FALSE
    /\ response = NoResponse
    /\ unlogged = 0

\* ---------------------------------------------------------------- worker
\* Reconcile, from r.Get to the first remote call or store write.
Reconcile ==
    /\ pc = "idle"
    /\ calls' = <<>>
    /\ writes' = <<>>
    /\ apiPipeline' = NoAPIPipeline
    /\ pendingErr' = NoError
    /\ streak' = IF streak < 2 THEN streak + 1 ELSE 2
    /\ prevEnd' = End
    /\ \/ /\ ~healthy
          /\ pc' = "idle"
          /\ result' = GetFailed
          /\ found' = FALSE
          /\ UNCHANGED <<pipeline, fresh, fetched>>
       \/ /\ ~exists
          /\ pc' = "idle"
          /\ result' = NotFoundDirective
          /\ found' = FALSE
          /\ UNCHANGED <<pipeline, fresh, fetched>>
       \/ /\ exists
          /\ pipeline' = stored
          /\ found' = TRUE
          /\ fetched' = stored
          /\ fresh' = TRUE
          /\ pc' = Dispatch(stored)
          /\ result' = IF Dispatch(stored) = "idle" THEN NoRequeue ELSE NotReturned
    /\ UNCHANGED <<storeVars, remote, healthy>>
    /\ request' = NoRequest
    /\ lifecycle' = IF pc' = "RemoveFinalizer" THEN "deleted" ELSE lifecycle
    /\ cancelled' = FALSE
    /\ unlogged' = 0
    /\ UNCHANGED <<converted, response>>

\* Mutant of ReconcileAddFinalizer: after the finalizer is stored the invocation
\* goes on to sync instead of returning.
ReconcileAddFinalizerThenSync ==
    /\ pc = "AddFinalizer"
    /\ \E outcome \in WriteOutcomes :
        /\ writes' = Append(writes, Write("Update", outcome))
        /\ pipeline' = AddFinalizer(pipeline, pipelineFinalizer)
        /\ IF outcome = "ok"
           THEN /\ stored' = [pipeline' EXCEPT !.Status = stored.Status]
                /\ result' = result
                /\ pc' = "UpsertPipeline"
           ELSE /\ stored' = stored
                /\ result' = ReturnError("update failed")
                /\ pc' = "idle"
    /\ UNCHANGED <<exists, remote, healthy, fresh, apiPipeline, pendingErr, calls,
                   found, fetched, historyVars>>
    /\ UNCHANGED <<lifecycle, requestVars, cancelled, unlogged>>

\* Reconcile step 3: r.Update with the finalizer added.
ReconcileAddFinalizer ==
    /\ pc = "AddFinalizer"
    /\ \E outcome \in WriteOutcomes :
        /\ writes' = Append(writes, Write("Update", outcome))
        /\ pipeline' = AddFinalizer(pipeline, pipelineFinalizer)
        /\ IF outcome = "ok"
           THEN /\ stored' = [pipeline' EXCEPT !.Status = stored.Status]
                /\ result' = NoRequeue
           ELSE /\ stored' = stored
                /\ result' = ReturnError("update failed")
    /\ pc' = "idle"
    /\ UNCHANGED <<exists, remote, healthy, fresh, apiPipeline, pendingErr, calls,
                   found, fetched, historyVars>>
    /\ UNCHANGED <<lifecycle, requestVars, cancelled, unlogged>>

\* reconcileNormal: UpsertPipeline and, on an error, handleAPIError.
reconcileNormal ==
    /\ pc = "UpsertPipeline"
    /\ LET req == buildUpsertRequest(pipeline) IN
       \/ /\ remote' = remote \cup {RemoteID(req.Pipeline.Name)}
          /\ apiPipeline' = [ID |-> RemoteID(req.Pipeline.Name)]
          /\ calls' = Append(calls, Call("UpsertPipeline", req.Pipeline.Name, StatusOK))
          /\ pc' = "updateStatusSuccess"
          /\ unlogged' = 0
          /\ UNCHANGED <<pipeline, pendingErr, result, cancelled>>
       \/ \E err \in UpsertErrors \cup {ContextCanceled} :
          /\ ~healthy
          /\ IF err = ContextCanceled
             THEN remote' \in {remote, remote \cup {RemoteID(req.Pipeline.Name)}}
             ELSE remote' = remote
          /\ cancelled' = (err = ContextCanceled)
          /\ LET h == handleAPIError(err)
                 logged == ~(h.do = "reconcileNormal"
                             /\ Len(calls) + 1 >= MaxUpsertCalls)
             IN
             /\ calls' = IF logged
                         THEN Append(calls, Call("UpsertPipeline",
                                                 req.Pipeline.Name, err.StatusCode))
                         ELSE calls
             /\ unlogged' = IF logged THEN 0 ELSE 1 - unlogged
             /\ pc' = CASE h.do = "updateStatusError" -> "updateStatusError"
                        [] h.do = "reconcileNormal" -> "UpsertPipeline"
                        [] OTHER -> "idle"
             /\ pipeline' = IF h.do = "reconcileNormal"
                            THEN ClearID(pipeline)
                            ELSE pipeline
             /\ pendingErr' = IF h.do = "updateStatusError"
                              THEN [reason |-> h.reason, msg |-> ErrorString(err)]
                              ELSE pendingErr
             /\ result' = IF h.do = "requeueAfter" THEN RequeueAfterDelay ELSE result
          /\ UNCHANGED apiPipeline
    /\ request' = buildUpsertRequest(pipeline)
    /\ lifecycle' = "attempted"
    /\ UNCHANGED <<storeVars, healthy, fresh, writes, found, fetched, historyVars,
                   converted, response>>

\* reconcileDelete: DeletePipeline(status.id) and the handling of its error.
reconcileDelete ==
    /\ pc = "DeletePipeline"
    /\ LET id == pipeline.Status.ID IN
       \/ /\ remote' = remote \ {id}
          /\ calls' = Append(calls, Call("DeletePipeline", id, StatusOK))
          /\ pc' = "RemoveFinalizer"
          /\ UNCHANGED <<pendingErr, cancelled>>
       \/ \E err \in DeleteErrors \cup {DeleteNotFound, ContextCanceled} :
          /\ ~healthy
          /\ IF err = ContextCanceled
             THEN remote' \in {remote, remote \ {id}}
             ELSE remote' = remote
          /\ cancelled' = (err = ContextCanceled)
          /\ err = DeleteNotFound => id \notin remote
          /\ calls' = Append(calls, Call("DeletePipeline", id, err.StatusCode))
          /\ IF IsDeleteNotFound(err)
             THEN /\ pc' = "RemoveFinalizer"
                  /\ UNCHANGED pendingErr
             ELSE /\ pc' = "updateStatusError"
                  /\ pendingErr' = [reason |-> reasonDeleteFailed,
                                    msg |-> ErrorString(err)]
    /\ lifecycle' = IF pc' = "RemoveFinalizer" THEN "deleted" ELSE lifecycle
    /\ UNCHANGED <<storeVars, healthy, pipeline, fresh, apiPipeline, writes, result,
                   found, fetched, historyVars, requestVars, unlogged>>

\* Mutant of reconcileDeleteRemoveFinalizer: the removal is sent with
\* Status().Update, which does not store metadata.
reconcileDeleteRemoveFinalizerViaStatus ==
    /\ pc = "RemoveFinalizer"
    /\ \E outcome \in WriteOutcomes :
        /\ writes' = Append(writes, Write("StatusUpdate", outcome))
        /\ pipeline' = RemoveFinalizer(pipeline, pipelineFinalizer)
        /\ UNCHANGED storeVars
        /\ result' = IF outcome = "ok" THEN NoRequeue ELSE ReturnError("update failed")
    /\ pc' = "idle"
    /\ UNCHANGED <<remote, healthy, fresh, apiPipeline, pendingErr, calls,
                   found, fetched, historyVars>>
    /\ UNCHANGED <<lifecycle, requestVars, cancelled, unlogged>>

\* reconcileDelete: r.Update with the finalizer removed; the store removes an
\* object that has the deletion marker and no finalizer left.
reconcileDeleteRemoveFinalizer ==
    /\ pc = "RemoveFinalizer"
    /\ \E outcome \in WriteOutcomes :
        /\ writes' = Append(writes, Write("Update", outcome))
        /\ pipeline' = RemoveFinalizer(pipeline, pipelineFinalizer)
        /\ IF outcome = "ok"
           THEN /\ stored' = [pipeline' EXCEPT !.Status = stored.Status]
                /\ exists' = ~(stored'.DeletionTimestamp /\ stored'.Finalizers = {})
                /\ result' = NoRequeue
           ELSE /\ UNCHANGED storeVars
                /\ result' = ReturnError("update failed")
    /\ pc' = "idle"
    /\ UNCHANGED <<remote, healthy, fresh, apiPipeline, pendingErr, calls,
                   found, fetched, historyVars>>
    /\ UNCHANGED <<lifecycle, requestVars, cancelled, unlogged>>

\* Mutant of updateStatusSuccess: a conflicting status write is tried again
\* within the invocation.
updateStatusSuccessRetryingConflict ==
    /\ pc = "updateStatusSuccess"
    /\ pipeline' = StatusSuccess(pipeline, apiPipeline, Now)
    /\ \E outcome \in WriteOutcomes :
        /\ writes' = Append(writes, Write("StatusUpdate", outcome))
        /\ IF outcome = "ok"
           THEN /\ stored' = [stored EXCEPT !.Status = pipeline'.Status]
                /\ result' = NoRequeue
           ELSE /\ stored' = stored
                /\ result' = IF outcome = "conflict" THEN result
                              ELSE StatusUpdateFailed(outcome)
        /\ pc' = IF outcome = "conflict" THEN "updateStatusSuccess" ELSE "idle"
    /\ UNCHANGED <<exists, remote, healthy, fresh, apiPipeline, pendingErr, calls,
                   found, fetched, historyVars>>
    /\ UNCHANGED <<lifecycle, requestVars, cancelled, unlogged>>

\* updateStatusSuccess: the status of a successful sync and Status().Update.
updateStatusSuccess ==
    /\ pc = "updateStatusSuccess"
    /\ pipeline' = StatusSuccess(pipeline, apiPipeline, Now)
    /\ \E outcome \in WriteOutcomes :
        /\ writes' = Append(writes, Write("StatusUpdate", outcome))
        /\ IF outcome = "ok"
           THEN /\ stored' = [stored EXCEPT !.Status = pipeline'.Status]
                /\ result' = NoRequeue
           ELSE /\ stored' = stored
                /\ result' = StatusUpdateFailed(outcome)
    /\ pc' = "idle"
    /\ UNCHANGED <<exists, remote, healthy, fresh, apiPipeline, pendingErr, calls,
                   found, fetched, historyVars>>
    /\ UNCHANGED <<lifecycle, requestVars, cancelled, unlogged>>

\* updateStatusError: the status of a failed sync or delete and Status().Update.
updateStatusError ==
    /\ pc = "updateStatusError"
    /\ pipeline' = StatusError(pipeline, pendingErr.reason, pendingErr.msg, Now)
    /\ \E outcome \in WriteOutcomes :
        /\ writes' = Append(writes, Write("StatusUpdate", outcome))
        /\ IF outcome = "ok"
           THEN /\ stored' = [stored EXCEPT !.Status = pipeline'.Status]
                /\ result' = ErrorDirective(pendingErr.reason, pendingErr.msg)
           ELSE /\ stored' = stored
                /\ result' = StatusUpdateFailed(outcome)
    /\ pc' = "idle"
    /\ UNCHANGED <<exists, remote, healthy, fresh, apiPipeline, pendingErr, calls,
                   found, fetched, historyVars>>
    /\ UNCHANGED <<lifecycle, requestVars, cancelled, unlogged>>

\* The process stops in the middle of an invocation and restarts.
Restart ==
    /\ pc # "idle"
    /\ pc' = "idle"
    /\ result' = NotReturned
    /\ streak' = 0
    /\ UNCHANGED <<storeVars, remote, healthy, localVars, fresh, calls, writes,
                   prevEnd>>
    /\ UNCHANGED <<lifecycle, requestVars, cancelled, unlogged>>

\* ----------------------------------------------------------- environment
\* The user edits the spec: the store bumps metadata.generation.
UserUpdateSpec ==
    /\ exists
    /\ stored.Generation < MaxGeneration
    /\ \E s \in SpecSet \ {stored.Spec} :
        stored' = [stored EXCEPT !.Spec = s, !.Generation = @ + 1]
    /\ fresh' = FALSE
    /\ streak' = 0
    /\ UNCHANGED <<exists, remote, healthy, pc, localVars, calls, writes, result,
                   prevEnd>>
    /\ UNCHANGED <<lifecycle, requestVars, cancelled, unlogged>>

\* The user deletes the resource: the store sets the deletion marker, or
\* removes the object at once when no finalizer holds it.
UserDelete ==
    /\ exists
    /\ IsZero(stored.DeletionTimestamp)
    /\ stored' = [stored EXCEPT !.DeletionTimestamp = TRUE]
    /\ exists' = (stored.Finalizers # {})
    /\ fresh' = FALSE
    /\ streak' = 0
    /\ UNCHANGED <<remote, healthy, pc, localVars, calls, writes, result, prevEnd>>
    /\ UNCHANGED <<lifecycle, requestVars, cancelled, unlogged>>

\* The user deletes, with propagationPolicy=Foreground, a resource the
\* operator has not put its finalizer on yet: the store sets the deletion
\* marker and the foregroundDeletion finalizer, and the object stays.
UserDeleteForeground ==
    /\ exists
    /\ ~ContainsFinalizer(stored, pipelineFinalizer)
    /\ IsZero(stored.DeletionTimestamp)
    /\ stored' = [AddFinalizer(stored, foregroundDeletion)
                    EXCEPT !.DeletionTimestamp = TRUE]
    /\ fresh' = FALSE
    /\ streak' = 0
    /\ UNCHANGED <<exists, remote, healthy, pc, localVars, calls, writes, result,
                   prevEnd>>
    /\ UNCHANGED <<lifecycle, requestVars, cancelled, unlogged>>

\* The garbage collector has deleted the dependents and removes the
\* foregroundDeletion finalizer; the store removes an object that has the
\* deletion marker and no finalizer left.
GarbageCollect ==
    /\ exists
    /\ ContainsFinalizer(stored, foregroundDeletion)
    /\ stored' = RemoveFinalizer(stored, foregroundDeletion)
    /\ exists' = (stored'.Finalizers # {})
    /\ fresh' = FALSE
    /\ streak' = 0
    /\ UNCHANGED <<remote, healthy, pc, localVars, calls, writes, result, prevEnd>>
    /\ UNCHANGED <<lifecycle, requestVars, cancelled, unlogged>>

\* Someone changes labels or annotations: a new resourceVersion, the same
\* generation.
UserTouchMetadata ==
    /\ exists
    /\ fresh
    /\ fresh' = FALSE
    /\ streak' = 0
    /\ UNCHANGED <<storeVars, remote, healthy, pc, localVars, calls, writes, result,
                   prevEnd>>
    /\ UNCHANGED <<lifecycle, requestVars, cancelled, unlogged>>

\* A pipeline is deleted in Fleet Management behind the operator's back.
RemoteExternalDelete ==
    /\ \E id \in remote : remote' = remote \ {id}
    /\ streak' = 0
    /\ UNCHANGED <<storeVars, healthy, pc, localVars, fresh, calls, writes, result,
                   prevEnd>>
    /\ UNCHANGED <<lifecycle, requestVars, cancelled, unlogged>>

\* The remote service and the store stop failing, for good.
Recover ==
    /\ ~healthy
    /\ healthy' = TRUE
    /\ streak' = 0
    /\ UNCHANGED <<storeVars, remote, pc, localVars, fresh, calls, writes, result,
                   prevEnd>>
    /\ UNCHANGED <<lifecycle, requestVars, cancelled, unlogged>>

\* ------------------------------------------------- conversions on their own
\* buildUpsertRequest and ConfigTypeFromFleetAPI called directly, as the
\* controller's unit tests call them.
RequestInit ==
    /\ pipeline \in RequestInputs
    /\ exists = FALSE
    /\ stored = NewPipeline(PipelineSpec(""))
    /\ remote = {}
    /\ healthy = FALSE
    /\ pc = "idle"
    /\ fresh = FALSE
    /\ apiPipeline = NoAPIPipeline
    /\ pendingErr = NoError
    /\ calls = <<>>
    /\ writes = <<>>
    /\ result = NotReturned
    /\ found = FALSE
    /\ fetched = stored
    /\ streak = 0
    /\ prevEnd = "aborted"
    /\ lifecycle = "never"
    /\ request = NoRequest
    /\ converted = ""
    /\ cancelled = FALSE
    /\ response = NoResponse
    /\ unlogged = 0

CallBuildUpsertRequest ==
    /\ request.isNil
    /\ request' = buildUpsertRequest(pipeline)
    /\ UNCHANGED <<storeVars, remote, healthy, pc, localVars, fresh, calls, writes,
                   result, historyVars, lifecycle, converted, cancelled, response,
                   unlogged>>

CallConfigTypeFromFleetAPI ==
    /\ ~request.isNil
    /\ converted = ""
    /\ converted' = ConfigTypeFromFleetAPI(request.Pipeline.ConfigType)
    /\ UNCHANGED <<storeVars, remote, healthy, pc, localVars, fresh, calls, writes,
                   result, historyVars, lifecycle, request, cancelled, response,
                   unlogged>>

\* Client.DeletePipeline receives an HTTP response.
CallClientDeletePipeline ==
    /\ response = NoResponse
    /\ \E statusCode \in HTTPStatusCodes, body \in HTTPBodies :
        response' = [isNil |-> FALSE, StatusCode |-> statusCode, Body |-> body,
                     err |-> ClientDeletePipeline(statusCode, body)]
    /\ UNCHANGED <<storeVars, remote, healthy, pc, localVars, fresh, calls, writes,
                   result, historyVars, lifecycle, request, converted, cancelled,
                   unlogged>>

RequestNext ==
    \/ CallBuildUpsertRequest
    \/ CallConfigTypeFromFleetAPI
    \/ CallClientDeletePipeline

RequestSpec == RequestInit /\ [][RequestNext]_vars

Worker ==
    \/ Reconcile
    \/ ReconcileAddFinalizer
    \/ reconcileNormal
    \/ reconcileDelete
    \/ reconcileDeleteRemoveFinalizer
    \/ updateStatusSuccess
    \/ updateStatusError

Next ==
    \/ Reconcile
    \/ ReconcileAddFinalizer
    \/ reconcileNormal
    \/ reconcileDelete
    \/ reconcileDeleteRemoveFinalizer
    \/ updateStatusSuccess
    \/ updateStatusError
    \/ Restart
    \/ UserUpdateSpec
    \/ UserDelete
    \/ UserDeleteForeground
    \/ GarbageCollect
    \/ UserTouchMetadata
    \/ RemoteExternalDelete
    \/ Recover

Spec == Init /\ [][Next]_vars

\* The trigger layer re-invokes Reconcile (watch events, requeues, backoff
\* retries, periodic resync) and a started invocation runs on.
LiveSpec == Init /\ [][Next]_vars /\ WF_vars(Worker)

\* ================================================================ claims
Returned == pc = "idle" /\ result.returned

Deleting(p) == ~IsZero(p.DeletionTimestamp)

HasCondition(st, type) == \E i \in 1..Len(st.Conditions) : st.Conditions[i].Type = type

FindStatusCondition(st, type) ==
    st.Conditions[CHOOSE i \in 1..Len(st.Conditions) : st.Conditions[i].Type = type]

\* Ready and Synced are both recorded with this status and reason.
BothConditions(st, status, reason) ==
    \A type \in {conditionTypeReady, conditionTypeSynced} :
        /\ HasCondition(st, type)
        /\ FindStatusCondition(st, type).Status = status
        /\ FindStatusCondition(st, type).Reason = reason

UpsertCalls == {i \in 1..Len(calls) : calls[i].op = "UpsertPipeline"}
DeleteCalls == {i \in 1..Len(calls) : calls[i].op = "DeletePipeline"}

\* The last remote call of the invocation was an UpsertPipeline answered `code`.
LastUpsertReturned(code) ==
    /\ calls # <<>>
    /\ Last(calls).op = "UpsertPipeline"
    /\ Last(calls).code = code

\* The invocation's one store write was a committed status write.
StatusCommitted == writes = <<Write("StatusUpdate", "ok")>>

\* The invocation has just had the store accept the removal of the finalizer.
FinalizerRemoved ==
    /\ Returned
    /\ Deleting(pipeline)
    /\ writes = <<Write("Update", "ok")>>

\* C1: when the engine removes the finalizer, the remote service holds no
\* object that an Upsert for the resource created.
C1_NoRemoteObjectWhenFinalizerRemoved == FinalizerRemoved => remote = {}

\* C2: a ServerOrTransport failure recorded for generation g is retried once
\* the remote service accepts upserts: without a spec change or a deletion the
\* resource reaches Ready=True with observedGeneration = g.
C2_SyncFailureIsRetriedUntilReady ==
    \A g \in 1..MaxGeneration :
        (/\ exists /\ healthy
         /\ ~Deleting(stored)
         /\ stored.Generation = g
         /\ stored.Status.ObservedGeneration = g
         /\ BothConditions(stored.Status, ConditionFalse, reasonSyncFailed))
        ~> (\/ /\ stored.Status.ObservedGeneration = g
               /\ BothConditions(stored.Status, ConditionTrue, reasonSynced)
            \/ ~exists
            \/ Deleting(stored)
            \/ stored.Generation # g)

C5_DeletePath ==
    (found /\ Deleting(fetched) /\ ContainsFinalizer(fetched, pipelineFinalizer))
    => /\ UpsertCalls = {}
       /\ fetched.Status.ID = "" => calls = <<>>
       /\ (fetched.Status.ID # "" /\ Returned)
            => /\ Len(calls) = 1
               /\ calls[1].op = "DeletePipeline"
               /\ calls[1].arg = fetched.Status.ID
       /\ (pc = "RemoveFinalizer" \/ (writes # <<>> /\ Last(writes).kind = "Update"))
            => \/ calls = <<>> /\ fetched.Status.ID = ""
               \/ /\ Len(calls) = 1
                  /\ calls[1].op = "DeletePipeline"
                  /\ calls[1].code \in {StatusOK, StatusNotFound}

C5_Witness ==
    /\ FinalizerRemoved
    /\ calls = <<Call("DeletePipeline", fetched.Status.ID, StatusNotFound)>>

\* The message of the remote service's bad-request answer.
BadRequestMessage ==
    (CHOOSE e \in UpsertErrors : e.StatusCode = StatusBadRequest).Message

\* A validation failure is on record for generation g.
ValidationRecorded(g) ==
    /\ exists
    /\ stored.Status.ObservedGeneration = g
    /\ BothConditions(stored.Status, ConditionFalse, reasonValidationError)

ValidationStatusStored ==
    /\ stored.Status.ObservedGeneration = pipeline.Generation
    /\ stored.Status.ID = pipeline.Status.ID
    /\ BothConditions(stored.Status, ConditionFalse, reasonValidationError)
    /\ \A type \in {conditionTypeReady, conditionTypeSynced} :
          /\ FindStatusCondition(stored.Status, type).Message = BadRequestMessage
          /\ FindStatusCondition(stored.Status, type).ObservedGeneration =
                pipeline.Generation

\* No Upsert is in preparation for a generation that has a validation failure
\* on record.
NoUpsertOnceValidationRecorded ==
    \A g \in 1..(MaxGeneration + 1) :
        ValidationRecorded(g) => ~(pc = "UpsertPipeline" /\ pipeline.Generation = g)

\* C6 as stated: an invocation whose Upsert was answered 400 has committed the
\* ValidationError status and returns no-requeue, and no Upsert follows for
\* that generation.
C6_ValidationErrorIsRecorded ==
    /\ (Returned /\ LastUpsertReturned(StatusBadRequest))
         => ValidationStatusStored /\ result = NoRequeue
    /\ NoUpsertOnceValidationRecorded

\* C6 as amended: the same, for the invocations whose status write the store
\* accepted.
C6_ValidationErrorIsRecordedWhenCommitted ==
    /\ (Returned /\ LastUpsertReturned(StatusBadRequest) /\ StatusCommitted)
         => ValidationStatusStored /\ result = NoRequeue
    /\ NoUpsertOnceValidationRecorded

C6_Witness ==
    /\ Returned
    /\ LastUpsertReturned(StatusBadRequest)
    /\ StatusCommitted
    /\ ValidationRecorded(stored.Generation)

C8_AtMostOneRemoteCall == Len(calls) <= 1

\* C8 as amended: every remote call of an invocation that is followed by
\* another one is an Upsert answered not-found, followed by an Upsert.
C8_OneRemoteCallUnlessNotFound ==
    \A i \in 1..(Len(calls) - 1) :
        /\ calls[i].op = "UpsertPipeline"
        /\ calls[i].code = StatusNotFound
        /\ calls[i + 1].op = "UpsertPipeline"

C8_Witness ==
    /\ Returned
    /\ Len(calls) = 2
    /\ calls[1].code = StatusNotFound
    /\ calls[2].code = StatusOK

\* C9: an invocation issues at most two Upsert calls: the one re-attempt
\* after a not-found answer is not followed by a third.
C9_AtMostTwoUpserts == Cardinality(UpsertCalls) <= 2

\* C10: status.observedGeneration <= metadata.generation.
C10_ObservedGenerationAtMostGeneration ==
    stored.Status.ObservedGeneration <= stored.Generation

C10_Witness ==
    /\ exists
    /\ stored.Status.ObservedGeneration >= 1
    /\ stored.Status.ObservedGeneration < stored.Generation
    /\ pc = "updateStatusError"

\* C11: across the committed status writes of a resource,
\* status.observedGeneration never decreases.
C11_ObservedGenerationNeverDecreases ==
    [][stored'.Status.ObservedGeneration >= stored.Status.ObservedGeneration]_vars

C11_Witness ==
    /\ Returned
    /\ StatusCommitted
    /\ found
    /\ fetched.Status.ObservedGeneration = 1
    /\ stored.Status.ObservedGeneration = 2

\* C12: once the stored status.id is non-empty no committed status write
\* changes it to a different non-empty value, and it becomes empty again only
\* through a status write that follows a not-found answer to an Upsert.
C12_RemoteIDIsStable ==
    [][/\ (stored.Status.ID # "" /\ stored'.Status.ID # "")
            => stored'.Status.ID = stored.Status.ID
       /\ (stored.Status.ID # "" /\ stored'.Status.ID = "")
            => /\ pc \in {"updateStatusSuccess", "updateStatusError"}
               /\ \E i \in UpsertCalls : calls[i].code = StatusNotFound]_vars

\* C14: an invocation whose status write was rejected as a version conflict
\* attempted no other write, left the stored object as it was, and returns
\* requeue-immediately with no error.
C14_StatusConflictRequeues ==
    [][(pc \in {"updateStatusSuccess", "updateStatusError"}
        /\ writes' # writes
        /\ Last(writes').outcome = "conflict")
       => /\ writes' = <<Write("StatusUpdate", "conflict")>>
          /\ stored' = stored
          /\ exists' = exists
          /\ pc' = "idle"
          /\ result' = RequeueNow
          /\ result'.err = ""]_vars

C14_Witness ==
    /\ Returned
    /\ writes = <<Write("StatusUpdate", "conflict")>>
    /\ pendingErr.reason = reasonDeleteFailed
    /\ result = RequeueNow

\* C13 as stated: the finalizer is present if and only if an Upsert was ever
\* issued for the resource and no delete was confirmed since.
C13_FinalizerIffSyncAttempted ==
    exists => (ContainsFinalizer(stored, pipelineFinalizer) <=> lifecycle = "attempted")

\* C13 as amended: whenever an Upsert was issued and no delete was confirmed
\* since, the resource is in the store and has the finalizer.
C13_FinalizerWhileSyncAttempted ==
    lifecycle = "attempted"
        => exists /\ ContainsFinalizer(stored, pipelineFinalizer)

C13_Witness ==
    /\ lifecycle = "attempted"
    /\ Returned
    /\ Deleting(stored)
    /\ calls # <<>>
    /\ Last(calls).op = "DeletePipeline"
    /\ Last(calls).code = StatusInternalServerError
    /\ ContainsFinalizer(stored, pipelineFinalizer)

\* A request was built from the object in `pipeline`.
RequestBuilt == ~request.isNil

\* C15: the Upsert request built from a resource carries the spec's contents,
\* matchers and enabled, the content type mapped from spec.configType, and a
\* non-null source.
C15_RequestCarriesEveryField ==
    RequestBuilt
    => /\ request.Pipeline.Contents = pipeline.Spec.Contents
       /\ request.Pipeline.Matchers = pipeline.Spec.Matchers
       /\ request.Pipeline.Enabled = pipeline.Spec.Enabled
       /\ request.Pipeline.ConfigType =
            (IF pipeline.Spec.ConfigType = "OpenTelemetryCollector"
             THEN "CONFIG_TYPE_OTEL" ELSE "CONFIG_TYPE_ALLOY")
       /\ ~request.Pipeline.Source.isNil
       /\ ~request.ValidateOnly

C15_Witness ==
    /\ RequestBuilt
    /\ pipeline.Spec.ConfigType = ConfigTypeOpenTelemetryCollector
    /\ pipeline.Spec.Matchers # <<>>
    /\ ~pipeline.Spec.Enabled
    /\ pipeline.Spec.Source.isNil

\* C16: the name in the Upsert request is spec.name when that is non-empty and
\* metadata.name otherwise.
C16_EffectiveName ==
    RequestBuilt
    => request.Pipeline.Name =
         (IF pipeline.Spec.Name # "" THEN pipeline.Spec.Name ELSE pipeline.Name)

C16_Witness ==
    /\ RequestBuilt
    /\ pipeline.Name = "k8s-pipeline"
    /\ pipeline.Spec.Name = "custom-pipeline-name"
    /\ request.Pipeline.Name = "custom-pipeline-name"

\* C17: the id field of the Upsert request is empty, whatever status.id is.
C17_RequestCarriesNoID == RequestBuilt => request.Pipeline.ID = ""

C17_Witness ==
    /\ RequestBuilt
    /\ pipeline.Status.ID # ""

\* The same resource under other coordinates.
At(p, ns, n) == [p EXCEPT !.Namespace = ns, !.Name = n]

C20_ConfigTypeRoundTrip ==
    (converted # "" /\ pipeline.Spec.ConfigType
        \in {ConfigTypeAlloy, ConfigTypeOpenTelemetryCollector})
    => /\ converted = pipeline.Spec.ConfigType
       /\ pipeline.Spec.ConfigType = "Alloy"
            => request.Pipeline.ConfigType = "CONFIG_TYPE_ALLOY"
       /\ pipeline.Spec.ConfigType = "OpenTelemetryCollector"
            => request.Pipeline.ConfigType = "CONFIG_TYPE_OTEL"

C20_Witness ==
    /\ converted = ConfigTypeOpenTelemetryCollector
    /\ request.Pipeline.ConfigType = fleetAPIConfigTypeOTEL

OneEntryPerType(conds) ==
    \A i, j \in 1..Len(conds) : conds[i].Type = conds[j].Type => i = j

\* C19: the stored conditions hold at most one entry per type; a committed
\* status write replaces the entry of each type by the new one, and the
\* lastTransitionTime of an entry changes only when its status changes.
C19_ConditionsReplacedInPlace ==
    [][/\ OneEntryPerType(stored'.Status.Conditions)
       /\ \A type \in {conditionTypeReady, conditionTypeSynced} :
            /\ HasCondition(stored.Status, type)
                 => /\ HasCondition(stored'.Status, type)
                    /\ FindStatusCondition(stored'.Status, type).LastTransitionTime
                          # FindStatusCondition(stored.Status, type).LastTransitionTime
                       => FindStatusCondition(stored'.Status, type).Status
                             # FindStatusCondition(stored.Status, type).Status
            /\ (pc \in {"updateStatusSuccess", "updateStatusError"}
                /\ writes' = <<Write("StatusUpdate", "ok")>>)
                 => /\ HasCondition(stored'.Status, type)
                    /\ FindStatusCondition(stored'.Status, type).Reason =
                         (IF pc = "updateStatusSuccess" THEN reasonSynced
                          ELSE pendingErr.reason)
                    /\ FindStatusCondition(stored'.Status, type).ObservedGeneration
                         = stored'.Generation
                    /\ FindStatusCondition(stored'.Status, type).LastTransitionTime
                         >= 1]_vars

C19_Witness ==
    /\ Returned
    /\ StatusCommitted
    /\ found
    /\ HasCondition(fetched.Status, conditionTypeReady)
    /\ FindStatusCondition(fetched.Status, conditionTypeReady).Status = ConditionTrue
    /\ FindStatusCondition(fetched.Status, conditionTypeReady).ObservedGeneration = 1
    /\ Len(stored.Status.Conditions) = 2
    /\ FindStatusCondition(stored.Status, conditionTypeReady).Status = ConditionTrue
    /\ FindStatusCondition(stored.Status, conditionTypeReady).ObservedGeneration = 2
    /\ FindStatusCondition(stored.Status, conditionTypeReady).LastTransitionTime = 1

\* The invocation fetched a resource on the normal path.
NormalPathFetched == found /\ ~Deleting(fetched)

\* The invocation fetched a resource marked for deletion that has the finalizer.
DeletePathFetched ==
    found /\ Deleting(fetched) /\ ContainsFinalizer(fetched, pipelineFinalizer)

\* The last remote call of the invocation was a DeletePipeline answered `code`.
LastDeleteReturned(code) ==
    /\ calls # <<>>
    /\ Last(calls).op = "DeletePipeline"
    /\ Last(calls).code = code

\* The last remote call of the invocation failed with something other than
\* not-found (for an Upsert: other than bad-request, not-found, rate limit).
LastCallFailed(op) ==
    /\ calls # <<>>
    /\ Last(calls).op = op
    /\ Last(calls).code \notin
         {StatusOK, StatusBadRequest, StatusNotFound, StatusTooManyRequests}

\* The directives that make the trigger layer retry with exponential backoff:
\* an error, or Requeue without a delay.
BackoffDirective ==
    /\ result.err # "" \/ result.Requeue
    /\ result.RequeueAfter = 0

C22_GenerationGate ==
    (/\ NormalPathFetched
     /\ ContainsFinalizer(fetched, pipelineFinalizer)
     /\ fetched.Status.ObservedGeneration = fetched.Generation)
    => /\ calls = <<>>
       /\ writes = <<>>
       /\ Returned
       /\ result = NoRequeue

C22_Witness ==
    /\ NormalPathFetched
    /\ fetched.Status.ObservedGeneration = fetched.Generation
    /\ fetched.Status.ID # ""
    /\ streak = 2
    /\ prevEnd = "nothing to do"
    /\ Returned

\* Every Upsert call comes from an invocation whose fetched resource had the
\* finalizer, and an invocation that fetched a resource without it makes no
\* remote call and at most one store write, a metadata write.
FinalizerBeforeSync ==
    /\ UpsertCalls # {} => found /\ ContainsFinalizer(fetched, pipelineFinalizer)
    /\ (NormalPathFetched /\ ~ContainsFinalizer(fetched, pipelineFinalizer))
         => /\ calls = <<>>
            /\ pc \in {"idle", "AddFinalizer"}
            /\ Len(writes) <= 1
            /\ \A i \in 1..Len(writes) : writes[i].kind = "Update"
            /\ Returned => Len(writes) = 1

\* C23 as stated: an invocation that fetched a resource with no deletion
\* marker and no finalizer adds the finalizer with a metadata write, makes no
\* remote call and no status write and returns no-requeue; every Upsert call
\* comes from an invocation whose fetched resource had the finalizer.
C23_TwoPhaseFinalizer ==
    /\ FinalizerBeforeSync
    /\ (NormalPathFetched /\ ~ContainsFinalizer(fetched, pipelineFinalizer) /\ Returned)
         => /\ writes = <<Write("Update", "ok")>>
            /\ ContainsFinalizer(stored, pipelineFinalizer)
            /\ result = NoRequeue

\* C23 as amended: the same when the store accepts the metadata write; when it
\* rejects the write the invocation returns the write's error.
C23_TwoPhaseFinalizerWhenCommitted ==
    /\ FinalizerBeforeSync
    /\ (NormalPathFetched /\ ~ContainsFinalizer(fetched, pipelineFinalizer) /\ Returned)
         => IF writes = <<Write("Update", "ok")>>
            THEN /\ ContainsFinalizer(stored, pipelineFinalizer)
                 /\ result = NoRequeue
            ELSE /\ result.err # ""
                 /\ ~result.Requeue

C23_Witness ==
    /\ NormalPathFetched
    /\ ~ContainsFinalizer(fetched, pipelineFinalizer)
    /\ Returned
    /\ writes = <<Write("Update", "ok")>>
    /\ ContainsFinalizer(stored, pipelineFinalizer)
    /\ calls = <<>>

\* C24 as stated: on the delete path, an invocation whose Delete was answered
\* not-found removes the finalizer with a metadata write and returns no error
\* and no requeue.
C24_DeleteNotFoundIsSuccess ==
    (DeletePathFetched /\ Returned /\ LastDeleteReturned(StatusNotFound))
    => /\ writes = <<Write("Update", "ok")>>
       /\ ~ContainsFinalizer(stored, pipelineFinalizer)
       /\ result = NoRequeue

\* C24 as amended: it attempts the metadata write that removes the finalizer
\* and nothing else; when the store accepts the write the finalizer is gone
\* and it returns no error and no requeue, otherwise it returns the write's
\* error.
C24_DeleteNotFoundIsSuccessWhenCommitted ==
    (DeletePathFetched /\ Returned /\ LastDeleteReturned(StatusNotFound))
    => /\ Len(writes) = 1
       /\ writes[1].kind = "Update"
       /\ IF writes[1].outcome = "ok"
          THEN /\ ~ContainsFinalizer(stored, pipelineFinalizer)
               /\ result = NoRequeue
          ELSE /\ result.err # ""
               /\ ~result.Requeue

C24_Witness ==
    /\ DeletePathFetched
    /\ Returned
    /\ LastDeleteReturned(StatusNotFound)
    /\ writes = <<Write("Update", "ok")>>
    /\ result = NoRequeue
    /\ ~exists

\* The stored status records the failed delete.
DeleteFailureStored ==
    /\ exists
    /\ ContainsFinalizer(stored, pipelineFinalizer)
    /\ BothConditions(stored.Status, ConditionFalse, reasonDeleteFailed)

\* The invocation after a recorded delete failure, with nothing changed in
\* between, is on the delete path and calls Delete with the stored id.
DeleteIsRetried ==
    (streak = 2 /\ prevEnd = "delete failure recorded" /\ found)
    => /\ DeletePathFetched
       /\ fetched.Status.ID # ""
       /\ \/ pc = "DeletePipeline" /\ calls = <<>>
          \/ /\ calls # <<>>
             /\ calls[1].op = "DeletePipeline"
             /\ calls[1].arg = fetched.Status.ID

\* C25 as stated: on the delete path, an invocation whose Delete failed with
\* anything other than not-found makes no metadata write, keeps the finalizer,
\* records Synced=False and returns a retriable failure, and the next
\* invocation calls Delete again.
C25_DeleteFailureIsRecorded ==
    /\ (DeletePathFetched /\ Returned /\ LastCallFailed("DeletePipeline"))
         => /\ writes = <<Write("StatusUpdate", "ok")>>
            /\ DeleteFailureStored
            /\ result.err # ""
    /\ DeleteIsRetried

\* C25 as amended: it attempts one status write and no metadata write and keeps
\* the finalizer; when the store accepts the write Synced=False is recorded and
\* the Delete error is returned, otherwise nothing is recorded and the
\* directive is requeue-immediately (conflict) or the write's error.
C25_DeleteFailureIsRecordedWhenCommitted ==
    /\ (DeletePathFetched /\ Returned /\ LastCallFailed("DeletePipeline"))
         => /\ Len(writes) = 1
            /\ writes[1].kind = "StatusUpdate"
            /\ exists
            /\ ContainsFinalizer(stored, pipelineFinalizer)
            /\ IF writes[1].outcome = "ok"
               THEN /\ DeleteFailureStored
                    /\ result = ReturnError(pendingErr.msg)
               ELSE /\ stored.Status = fetched.Status
                    /\ result.err # "" \/ result = RequeueNow
    /\ DeleteIsRetried

C25_Witness ==
    /\ streak = 2
    /\ prevEnd = "delete failure recorded"
    /\ DeletePathFetched
    /\ Returned
    /\ LastCallFailed("DeletePipeline")
    /\ StatusCommitted

C29_DeleteSuccessWritesMetadataOnly ==
    (/\ DeletePathFetched
     /\ Returned
     /\ \/ calls = <<>>
        \/ LastDeleteReturned(StatusOK)
        \/ LastDeleteReturned(StatusNotFound))
    => /\ Len(writes) = 1
       /\ writes[1].kind = "Update"
       /\ ~ContainsFinalizer(pipeline, pipelineFinalizer)

C29_Witness ==
    /\ DeletePathFetched
    /\ Returned
    /\ LastDeleteReturned(StatusOK)
    /\ writes = <<Write("Update", "conflict")>>

\* C28: an invocation that fetched a resource with the deletion marker and
\* without the finalizer makes no remote call and no store write (it does not
\* add the finalizer) and returns no-requeue with no error.
C28_DeletionBeforeFinalizer ==
    (found /\ Deleting(fetched) /\ ~ContainsFinalizer(fetched, pipelineFinalizer))
    => /\ calls = <<>>
       /\ writes = <<>>
       /\ Returned
       /\ result = NoRequeue
       /\ pipeline = fetched

C28_Witness ==
    /\ found
    /\ Deleting(fetched)
    /\ ~ContainsFinalizer(fetched, pipelineFinalizer)
    /\ Returned
    /\ exists
    /\ stored = fetched
    /\ fetched.Finalizers = {foregroundDeletion}

\* The last remote call of the invocation was an Upsert aborted by the
\* cancellation of the context.
UpsertCancelled ==
    /\ calls # <<>>
    /\ Last(calls).op = "UpsertPipeline"
    /\ cancelled

\* C30: an Upsert aborted by the cancellation of the context is handled as a
\* transport error: the invocation goes to record reason SyncFailed, never the
\* success status, nothing of it reaches the store (neither the identifier nor
\* Ready=True), and it returns an error.
C30_CancelledUpsertIsTransportError ==
    UpsertCancelled
    => /\ pendingErr = [reason |-> reasonSyncFailed,
                        msg |-> ErrorString(ContextCanceled)]
       /\ apiPipeline = NoAPIPipeline
       /\ pc \in {"updateStatusError", "idle"}
       /\ stored.Status = fetched.Status
       /\ \A i \in 1..Len(writes) :
            writes[i].kind = "StatusUpdate" /\ writes[i].outcome = "error"
       /\ Returned => /\ Len(writes) = 1
                      /\ result.err # ""
                      /\ BackoffDirective

C30_Witness ==
    /\ UpsertCancelled
    /\ Returned
    /\ RemoteID(Last(calls).arg) \in remote
    /\ fetched.Status.ID = ""
    /\ stored.Status.ID = ""

\* Steps that take the running invocation's work away: the process restarts,
\* or someone else writes the object and the pending write conflicts.
Interference ==
    \/ Restart
    \/ UserUpdateSpec
    \/ UserTouchMetadata

\* The invocation after a failed finalizer-removal write, with nothing changed
\* in between, calls Delete again with the identifier still in the status,
\* and removes the finalizer when its own write is accepted.
DeleteIsRepeatedAfterFailedRemoval ==
    (streak = 2 /\ prevEnd = "finalizer removal failed" /\ found)
    => /\ DeletePathFetched
       /\ fetched.Status.ID # ""
            => \/ pc = "DeletePipeline" /\ calls = <<>>
               \/ /\ calls # <<>>
                  /\ calls[1].op = "DeletePipeline"
                  /\ calls[1].arg = fetched.Status.ID
       /\ (Returned /\ writes = <<Write("Update", "ok")>>)
            => ~(exists /\ ContainsFinalizer(stored, pipelineFinalizer))

\* C26: once calls and writes succeed, a resource with the deletion marker and
\* the finalizer eventually loses the finalizer, unless invocations are cut
\* short or overtaken by other writers for ever; and the invocation after a
\* failed finalizer-removal write calls Delete again with the same identifier
\* before it removes the finalizer.
C26_DeletionCompletes ==
    /\ []DeleteIsRepeatedAfterFailedRemoval
    /\ \/ []<><<Interference>>_vars
       \/ ((exists /\ healthy /\ Deleting(stored)
            /\ ContainsFinalizer(stored, pipelineFinalizer))
           ~> ~(exists /\ ContainsFinalizer(stored, pipelineFinalizer)))

C26_Witness ==
    /\ streak = 2
    /\ prevEnd = "finalizer removal failed"
    /\ DeletePathFetched
    /\ Returned
    /\ calls = <<Call("DeletePipeline", fetched.Status.ID, StatusOK)>>
    /\ writes = <<Write("Update", "ok")>>
    /\ ~exists

\* The fetch of the last invocation answered not-found (and did not fail).
FetchNotFound == ~found /\ Returned /\ result # GetFailed

\* C31: an invocation whose fetch answered not-found makes no remote call and
\* no store write and returns no-requeue with no error.
C31_NotFoundIsNoError ==
    FetchNotFound
    => /\ calls = <<>>
       /\ writes = <<>>
       /\ result = NoRequeue

C31_Witness ==
    /\ FetchNotFound
    /\ ~exists
    /\ lifecycle = "deleted"
    /\ prevEnd = "finalizer removed"
    /\ result = NoRequeue

\* C32: the engine never changes the desired resource. While nobody else has
\* written the object since the invocation fetched it, the stored spec and
\* metadata.generation are the fetched ones, whatever the invocation wrote
\* (finalizer added, finalizer removed, status); and no step of an invocation
\* changes the stored spec or generation.
C32_SpecIsReadOnly ==
    /\ [](  (found /\ fresh)
           => /\ stored.Spec = fetched.Spec
              /\ stored.Generation = fetched.Generation
              /\ stored.Name = fetched.Name
              /\ stored.Namespace = fetched.Namespace)
    /\ [][(pc' # pc \/ calls' # calls \/ writes' # writes)
           => /\ stored'.Spec = stored.Spec
              /\ stored'.Generation = stored.Generation]_vars

C32_Witness ==
    /\ found
    /\ fresh
    /\ Returned
    /\ writes = <<Write("Update", "ok")>>
    /\ stored.Finalizers # fetched.Finalizers
    /\ stored.Generation = 2
    /\ stored.Spec = fetched.Spec

\* C33: Client.DeletePipeline returns nil for a 404 response and for a 200
\* response, and for every other status code a FleetAPIError with that status
\* code and the operation DeletePipeline.
C33_DeleteResponseMapping ==
    ~response.isNil
    => IF response.StatusCode \in {StatusOK, StatusNotFound}
       THEN response.err = NilError
       ELSE /\ response.err # NilError
            /\ response.err.isAPI
            /\ response.err.StatusCode = response.StatusCode
            /\ response.err.Operation = "DeletePipeline"

C33_Witness ==
    /\ ~response.isNil
    /\ response.StatusCode = StatusNotFound
    /\ response.Body = "pipeline not found"
    /\ response.err = NilError

\* C34: every invocation returns: a running invocation eventually ends.
C34_EveryInvocationReturns == (pc # "idle") ~> (pc = "idle")

\* C35: Upsert is issued only by invocations whose fetched resource has no
\* deletion marker, and Delete only by invocations whose fetched resource has
\* the deletion marker and the finalizer.
C35_CallsMatchThePath ==
    /\ (pc = "UpsertPipeline" \/ UpsertCalls # {}) => NormalPathFetched
    /\ (pc = "DeletePipeline" \/ DeleteCalls # {}) => DeletePathFetched

C35_Witness ==
    /\ DeletePathFetched
    /\ fetched.Status.ObservedGeneration < fetched.Generation
    /\ DeleteCalls # {}
    /\ UpsertCalls = {}
    /\ Returned

\* C36: an invocation attempts at most one store write, a metadata write or a
\* status write, and it is the invocation's last step.
C36_AtMostOneWrite ==
    /\ Len(writes) <= 1
    /\ writes # <<>> => pc = "idle"

C36_Witness ==
    /\ Returned
    /\ NormalPathFetched
    /\ Len(calls) >= 2
    /\ calls[1].code = StatusNotFound
    /\ writes = <<Write("StatusUpdate", "ok")>>
    /\ LastUpsertReturned(StatusOK)

ReattemptedAfterNotFound ==
    /\ NormalPathFetched
    /\ fetched.Status.ID # ""
    /\ Returned
    /\ Len(calls) >= 2
    /\ calls[1].code = StatusNotFound

\* C38: the identifier cleared in memory after a not-found Upsert reaches the
\* store only with the committed status write of the re-attempt: a re-attempt
\* that ends in a validation, server or transport error and whose status write
\* commits stores an empty identifier; one that is rate-limited, or whose
\* status write is not accepted, leaves the stored identifier as it was.
C38_ClearedIDIsStoredWithTheOutcome ==
    /\ ReattemptedAfterNotFound
         => IF StatusCommitted
            THEN stored.Status.ID =
                    IF LastUpsertReturned(StatusOK) THEN apiPipeline.ID ELSE ""
            ELSE /\ stored.Status.ID = fetched.Status.ID
                 /\ LastUpsertReturned(StatusTooManyRequests) => writes = <<>>
    /\ (found /\ pc = "UpsertPipeline") => stored.Status.ID = fetched.Status.ID

C38_Witness ==
    /\ ReattemptedAfterNotFound
    /\ LastUpsertReturned(StatusBadRequest)
    /\ StatusCommitted
    /\ stored.Status.ID = ""
    /\ pipeline.Status.ID = ""

\* C39 as stated: a failed remote Delete commits a status write with
\* observedGeneration = generation and Ready and Synced False with reason
\* DeleteFailed.
C39_DeleteFailureCommitsGeneration ==
    (DeletePathFetched /\ Returned /\ LastCallFailed("DeletePipeline"))
    => /\ StatusCommitted
       /\ stored.Status.ObservedGeneration = fetched.Generation
       /\ BothConditions(stored.Status, ConditionFalse, reasonDeleteFailed)

\* C39 as amended: the status write a failed remote Delete attempts, when the
\* store accepts it, stores observedGeneration = generation and Ready and
\* Synced False with reason DeleteFailed and that generation, also when the
\* generation was never upserted; the remote identifier stays.
C39_DeleteFailureCommitsGenerationWhenAccepted ==
    (DeletePathFetched /\ Returned /\ LastCallFailed("DeletePipeline")
     /\ StatusCommitted)
    => /\ stored.Status.ObservedGeneration = fetched.Generation
       /\ BothConditions(stored.Status, ConditionFalse, reasonDeleteFailed)
       /\ \A type \in {conditionTypeReady, conditionTypeSynced} :
            FindStatusCondition(stored.Status, type).ObservedGeneration
                = fetched.Generation
       /\ stored.Status.ID = fetched.Status.ID

C39_Witness ==
    /\ DeletePathFetched
    /\ Returned
    /\ LastCallFailed("DeletePipeline")
    /\ StatusCommitted
    /\ fetched.Status.ObservedGeneration < fetched.Generation
    /\ stored.Status.ObservedGeneration = fetched.Generation
    /\ fetched.Generation = 2

====
